---- MODULE Spec2Model ----
(***************************************************************************)
(* The expense tracker's Home component (src/pages/index.js and its        *)
(* decorated twin src/unnamed/part_000): the React state, the three        *)
(* effects, the event handlers, the derived totals and the CSV bridge.     *)
(*                                                                         *)
(* JavaScript values are tagged records of one shape, so that NaN, null,   *)
(* undefined and a property that is absent from an object stay distinct.   *)
(* Amounts are integers: fractions and float rounding are not modelled.    *)
(* A CSV text is modelled at the level of its cells (a sequence of lines,  *)
(* each a sequence of cell strings); Papa's quoting of a cell on export    *)
(* and unquoting on import is not modelled.                                *)
(***************************************************************************)
EXTENDS Integers, Sequences, FiniteSets, TLC

\* Longest ledger the add form may build (the code has no limit).
MaxLedger == 2
\* Most CSV parses in flight at once (the code has no limit).
MaxParsing == 1

---------------------------------------------------------------------------
\* JavaScript values

Str(s) == [t |-> "string", s |-> s, n |-> 0]
Num(n) == [t |-> "number", s |-> "", n |-> n]
NaN == [t |-> "NaN", s |-> "", n |-> 0]
Null == [t |-> "null", s |-> "", n |-> 0]
Undefined == [t |-> "undefined", s |-> "", n |-> 0]
\* The marker of a property an object does not have.
Absent == [t |-> "absent", s |-> "", n |-> 0]
\* What {}.constructor, {}.toString, ... evaluate to: an inherited function.
FunctionSource == "function Object() { [native code] }"
Fn == [t |-> "function", s |-> FunctionSource, n |-> 0]

\* obj.key
Read(v) == IF v = Absent THEN Undefined ELSE v

\* !v
Falsy(v) ==
    \/ v.t \in {"undefined", "null", "NaN", "absent"}
    \/ v.t = "string" /\ v.s = ""
    \/ v.t = "number" /\ v.n = 0

Digits == <<"0", "1", "2", "3", "4", "5", "6", "7", "8", "9">>

IsDigit(c) == \E d \in 1..10 : Digits[d] = c

DigitVal(c) == (CHOOSE d \in 1..10 : Digits[d] = c) - 1

CharAt(s, i) == SubSeq(s, i, i)

RECURSIVE NatToString(_)
NatToString(n) ==
    IF n < 10 THEN Digits[n + 1]
    ELSE NatToString(n \div 10) \o Digits[(n % 10) + 1]

\* String(v), as Papa.unparse and the + operator apply it
JsString(v) ==
    CASE v.t = "string" -> v.s
      [] v.t = "function" -> v.s
      [] v.t = "number" -> IF v.n < 0 THEN "-" \o NatToString(0 - v.n)
                           ELSE NatToString(v.n)
      [] v.t = "NaN" -> "NaN"
      [] v.t = "null" -> "null"
      [] OTHER -> "undefined"

RECURSIVE SkipSpace(_, _)
SkipSpace(s, i) ==
    IF i <= Len(s) /\ CharAt(s, i) = " " THEN SkipSpace(s, i + 1) ELSE i

RECURSIVE DigitsEnd(_, _)
DigitsEnd(s, i) ==
    IF i <= Len(s) /\ IsDigit(CharAt(s, i)) THEN DigitsEnd(s, i + 1) ELSE i

RECURSIVE DigitsValue(_, _, _)
DigitsValue(s, i, j) ==
    IF j < i THEN 0
    ELSE 10 * DigitsValue(s, i, j - 1) + DigitVal(CharAt(s, j))

\* parseFloat(v) over the alphabet of the model (digits, sign, letters,
\* space): leading blanks are skipped, then an optional sign and the longest
\* run of digits are read; no digit there gives NaN.
ParseFloat(v) ==
    LET s == JsString(v)
        i == SkipSpace(s, 1)
        signed == i <= Len(s) /\ CharAt(s, i) \in {"-", "+"}
        neg == signed /\ CharAt(s, i) = "-"
        b == IF signed THEN i + 1 ELSE i
        e == DigitsEnd(s, b)
    IN  IF e = b THEN NaN
        ELSE Num(IF neg THEN 0 - DigitsValue(s, b, e - 1)
                 ELSE DigitsValue(s, b, e - 1))

---------------------------------------------------------------------------
\* Comparison and arithmetic of the totals

\* n.toFixed(2) for the numbers of the model
ToFixed2(v) == IF v.t = "NaN" THEN "NaN" ELSE JsString(v) \o ".00"

\* ToNumber(v) for the values an amount can hold
ToNumber(v) ==
    CASE v.t = "number" -> v
      [] v.t = "null" -> Num(0)
      [] OTHER -> NaN

\* a > 0
GreaterThanZero(a) == ToNumber(a).t = "number" /\ ToNumber(a).n > 0

\* a < 0
LessThanZero(a) == ToNumber(a).t = "number" /\ ToNumber(a).n < 0

\* a + b
JsAdd(a, b) ==
    IF a.t \in {"string", "function"} \/ b.t \in {"string", "function"}
    THEN Str(JsString(a) \o JsString(b))
    ELSE IF ToNumber(a).t = "NaN" \/ ToNumber(b).t = "NaN" THEN NaN
    ELSE Num(ToNumber(a).n + ToNumber(b).n)

\* Math.abs(a)
MathAbs(a) ==
    IF ToNumber(a).t = "NaN" THEN NaN
    ELSE Num(IF ToNumber(a).n < 0 THEN 0 - ToNumber(a).n ELSE ToNumber(a).n)

\* array.reduce((acc, tx) => acc + tx.amount, init)
RECURSIVE SumAmounts(_, _)
SumAmounts(seq, acc) ==
    IF seq = <<>> THEN acc
    ELSE SumAmounts(Tail(seq), JsAdd(acc, Read(Head(seq).amount)))

\* a filter that lets NaN through: !(tx.amount <= 0)
IsIncomeNotNegative(tx) ==
    ~(ToNumber(Read(tx.amount)).t = "number"
      /\ ToNumber(Read(tx.amount)).n <= 0)

IsIncome(tx) == GreaterThanZero(Read(tx.amount))

IsExpense(tx) == LessThanZero(Read(tx.amount))

Income(txs) == SumAmounts(SelectSeq(txs, IsIncome), Num(0))

\* the filter left out
ExpensesUnfiltered(txs) == SumAmounts(txs, Num(0))

Expenses(txs) == SumAmounts(SelectSeq(txs, IsExpense), Num(0))

Balance(txs) == JsAdd(Income(txs), Expenses(txs))

---------------------------------------------------------------------------
\* The pie chart's input

\* Names every object literal {} inherits from Object.prototype.
ObjectPrototypeKeys == {"constructor", "toString", "valueOf", "hasOwnProperty"}

HasOwn(obj, key) == \E k \in 1..Len(obj) : obj[k].name = key

\* acc[key], acc an object built from {}: its own properties in insertion
\* order, as a sequence of [name, value]
ObjGet(obj, key) ==
    IF HasOwn(obj, key)
    THEN obj[CHOOSE k \in 1..Len(obj) : obj[k].name = key].value
    ELSE IF key \in ObjectPrototypeKeys THEN Fn
    ELSE Undefined

\* acc[key] = value
ObjSet(obj, key, value) ==
    IF HasOwn(obj, key)
    THEN [k \in 1..Len(obj) |->
            IF obj[k].name = key THEN [name |-> key, value |-> value] ELSE obj[k]]
    ELSE Append(obj, [name |-> key, value |-> value])

\* the reducer of expenseByCategory
AddExpense(acc, tx) ==
    LET key == JsString(Read(tx.category))
        abs == MathAbs(Read(tx.amount))
    IN  IF ~Falsy(ObjGet(acc, key))
        THEN ObjSet(acc, key, JsAdd(ObjGet(acc, key), abs))
        ELSE ObjSet(acc, key, abs)

RECURSIVE ReduceExpenses(_, _)
ReduceExpenses(seq, acc) ==
    IF seq = <<>> THEN acc
    ELSE ReduceExpenses(Tail(seq), AddExpense(acc, Head(seq)))

expenseByCategory(txs) == ReduceExpenses(SelectSeq(txs, IsExpense), <<>>)

\* Object.keys(expenseByCategory).map(key => ({name: key, value: ...}))
chartData(txs) ==
    LET obj == expenseByCategory(txs)
    IN  [k \in 1..Len(obj) |->
            [name |-> obj[k].name, value |-> ObjGet(obj, obj[k].name)]]

---------------------------------------------------------------------------
\* JSON and local storage

\* One property of an object under JSON.stringify: undefined is left out,
\* NaN becomes null.
JsonProperty(v) ==
    CASE v.t \in {"undefined", "absent"} -> Absent
      [] v.t = "NaN" -> Null
      [] OTHER -> v

\* JSON.stringify(transactions); the text is held as the tree it spells.
JSONStringify(txs) ==
    [i \in 1..Len(txs) |->
        [description |-> JsonProperty(txs[i].description),
         amount |-> JsonProperty(txs[i].amount),
         category |-> JsonProperty(txs[i].category)]]

\* JSON.parse(text): the array of objects the text spells.
JSONParse(text) ==
    [i \in 1..Len(text) |->
        [description |-> text[i].description,
         amount |-> text[i].amount,
         category |-> text[i].category]]

\* String(darkMode), the coercion localStorage.setItem applies
BoolToString(b) == IF b THEN "true" ELSE "false"

\* localStorage.getItem(key) === null
NoItem(empty) == [present |-> FALSE, text |-> empty]

Item(text) == [present |-> TRUE, text |-> text]

---------------------------------------------------------------------------
\* The CSV bridge

TxKeys == <<"description", "amount", "category">>

\* Object.keys(tx)
RECURSIVE OwnKeys(_, _)
OwnKeys(tx, keys) ==
    IF keys = <<>> THEN <<>>
    ELSE IF tx[Head(keys)] = Absent THEN OwnKeys(tx, Tail(keys))
    ELSE <<Head(keys)>> \o OwnKeys(tx, Tail(keys))

ObjectKeys(tx) == OwnKeys(tx, TxKeys)

\* Papa's safe(): the cell written for a value
Safe(v) == IF v.t \in {"undefined", "null", "absent"} THEN "" ELSE JsString(v)

\* Papa.unparse(transactions): no text for an empty array; otherwise the
\* keys of the first object as the header line, then one line per object
\* holding the values under those keys.
PapaUnparse(txs) ==
    IF Len(txs) = 0 THEN <<>>
    ELSE LET fields == ObjectKeys(txs[1])
             line(i) == [j \in 1..Len(fields) |-> Safe(txs[i][fields[j]])]
         IN  (IF Len(fields) > 0 THEN <<fields>> ELSE <<>>)
             \o [i \in 1..Len(txs) |-> line(i)]

Min(a, b) == IF a < b THEN a ELSE b

\* Papa.parse(file, {header: true}).data: the first line names the fields,
\* every later line becomes an object holding its cells under those names;
\* a line shorter than the header leaves the remaining names unset.
PapaParse(file) ==
    IF Len(file) = 0 THEN <<>>
    ELSE LET fields == file[1]
             width(i) == Min(Len(fields), Len(file[i + 1]))
         IN  [i \in 1..(Len(file) - 1) |->
                [k \in {fields[j] : j \in 1..width(i)} |->
                    Str(file[i + 1][CHOOSE j \in 1..width(i) : fields[j] = k])]]

\* row.name for a parsed row
RowGet(row, name) == IF name \in DOMAIN row THEN row[name] ELSE Undefined

\* the default left out
CategoryAsParsed(v) == v

\* tx.category || "Other"
CategoryOrOther(v) == IF Falsy(v) THEN Str("Other") ELSE v

\* results.data.map((tx) => ({description, amount: parseFloat(..), category}))
ImportedTransactions(data) ==
    [i \in 1..Len(data) |->
        [description |-> RowGet(data[i], "description"),
         amount |-> ParseFloat(RowGet(data[i], "amount")),
         category |-> CategoryOrOther(RowGet(data[i], "category"))]]

---------------------------------------------------------------------------
\* The inputs of the model

CsvHeader == <<"description", "amount", "category">>

\* A well-formed file whose rows leave the category blank or out.
FileNoCategory ==
    <<CsvHeader, <<"a", "-1", "">>, <<"b", "2">>, <<"c", "-3", "Food">>>>

\* A file with a non-numeric amount, and a category named like a member of
\* Object.prototype.
FileBadAmount ==
    <<CsvHeader, <<"b", "abc", "Food">>, <<"c", "-2", "constructor">>,
      <<"d", "4", "Salary">>>>

\* A file without a description column.
FileNoDescription ==
    <<<<"amount", "category">>, <<"2", "Food">>>>

FixedFiles == {FileNoCategory, FileBadAmount, FileNoDescription}

\* What the user types into the description and amount fields, and the
\* options of the category select the model uses.
Descriptions == {"", "a"}
Amounts == {"", "-1", "2"}
Categories == {"Other", "Food"}

NoFile == [present |-> FALSE, lines |-> <<>>]

File(lines) == [present |-> TRUE, lines |-> lines]

---------------------------------------------------------------------------
\* The state

VARIABLES
    phase,          \* "mounted": first render done, mount effects pending;
                    \* "updating": state set by an effect, re-render pending;
                    \* "idle"; "crashed": a render threw, Home is unmounted
    transactions,   \* useState([])
    description,    \* useState("")
    amount,         \* useState("")
    category,       \* useState("Other")
    darkMode,       \* useState(false)
    queued,         \* the state updates the load effect has queued
    localStorage,   \* the items "transactions" and "darkMode"
    parsing,        \* the files Papa.parse is reading
    download,       \* the file the last export wrote
    event,          \* the last event dispatched
    tabB            \* a second Home, in another tab over the same
                    \* localStorage: its phase, transactions, darkMode
                    \* and queued updates

vars == <<phase, transactions, description, amount, category, darkMode,
          queued, localStorage, parsing, download, event, tabB>>

\* index: the position a delete names, or the number of files selected
Event(op, index, lines) == [op |-> op, index |-> index, lines |-> lines]

NothingQueued ==
    [transactions |-> NoItem(<<>>), darkMode |-> NoItem(FALSE)]

\* A Home after its first render: the initial state, mount effects pending
TabMounted ==
    [phase |-> "mounted", transactions |-> <<>>, darkMode |-> FALSE,
     queued |-> NothingQueued]

Init ==
    /\ phase = "mounted"
    /\ transactions = <<>>
    /\ description = ""
    /\ amount = ""
    /\ category = "Other"
    /\ darkMode = FALSE
    /\ queued = NothingQueued
    /\ localStorage = [transactions |-> NoItem(<<>>), darkMode |-> NoItem("")]
    /\ parsing = {}
    /\ download = NoFile
    /\ event = Event("load", 0, <<>>)
    /\ tabB = TabMounted

\* {tx.amount.toFixed(2)} in the list: a TypeError when the amount is null
\* or undefined.
RenderThrows(txs) ==
    \E i \in 1..Len(txs) : Read(txs[i].amount).t \in {"null", "undefined"}

\* The effect saving the transactions
SaveTransactions(txs) == Item(JSONStringify(txs))

\* The effect saving the dark mode
SaveDarkMode(dark) == Item(BoolToString(dark))

\* A render with the new state and the effects whose dependencies changed.
\* A render that throws commits nothing and runs no effect.
Render(txs, txsSet, dark, desc, amt, cat) ==
    IF RenderThrows(txs)
    THEN /\ phase' = "crashed"
         /\ UNCHANGED <<transactions, description, amount, category,
                        darkMode, localStorage>>
    ELSE /\ phase' = "idle"
         /\ transactions' = txs
         /\ description' = desc
         /\ amount' = amt
         /\ category' = cat
         /\ darkMode' = dark
         /\ localStorage' =
              [transactions |-> IF txsSet THEN SaveTransactions(txs)
                                ELSE localStorage.transactions,
               darkMode |-> IF dark # darkMode THEN SaveDarkMode(dark)
                            ELSE localStorage.darkMode]

\* The three effects of the first render, in order: load, save the
\* transactions, save the dark mode.
MountEffects ==
    /\ phase = "mounted"
    /\ LET savedTransactions == localStorage.transactions
           savedDarkMode == localStorage.darkMode
           \* if (savedTransactions): a stored JSON text is never ""
           loadTransactions == savedTransactions.present
           loadDarkMode == savedDarkMode.present /\ savedDarkMode.text = "true"
       IN  /\ queued' =
                [transactions |->
                    IF loadTransactions
                    THEN Item(JSONParse(savedTransactions.text))
                    ELSE NoItem(<<>>),
                 darkMode |-> IF loadDarkMode THEN Item(TRUE)
                              ELSE NoItem(FALSE)]
           /\ phase' = IF loadTransactions \/ loadDarkMode THEN "updating"
                       ELSE "idle"
    /\ localStorage' = [transactions |-> SaveTransactions(transactions),
                        darkMode |-> SaveDarkMode(darkMode)]
    /\ event' = Event("effects", 0, <<>>)
    /\ UNCHANGED <<transactions, description, amount, category, darkMode,
                   parsing, download, tabB>>

\* The re-render the load effect's setTransactions and setDarkMode ask for.
Rerender ==
    /\ phase = "updating"
    /\ Render(IF queued.transactions.present THEN queued.transactions.text
              ELSE transactions,
              queued.transactions.present,
              IF queued.darkMode.present THEN queued.darkMode.text
              ELSE darkMode,
              description, amount, category)
    /\ queued' = NothingQueued
    /\ event' = Event("rerender", 0, <<>>)
    /\ UNCHANGED <<parsing, download, tabB>>

\* The page is reloaded (or closed and opened again): a new Home is
\* rendered from the initial state; local storage and downloads stay.
Reload ==
    /\ phase' = "mounted"
    /\ transactions' = <<>>
    /\ description' = ""
    /\ amount' = ""
    /\ category' = "Other"
    /\ darkMode' = FALSE
    /\ queued' = NothingQueued
    /\ parsing' = {}
    /\ event' = Event("reload", 0, <<>>)
    /\ UNCHANGED <<localStorage, download, tabB>>

toggleDarkMode ==
    /\ phase = "idle"
    /\ Render(transactions, FALSE, ~darkMode, description, amount, category)
    /\ event' = Event("toggle", 0, <<>>)
    /\ UNCHANGED <<queued, parsing, download, tabB>>

setDescription(value) ==
    /\ phase = "idle"
    /\ value # description
    /\ Render(transactions, FALSE, darkMode, value, amount, category)
    /\ event' = Event("type", 0, <<>>)
    /\ UNCHANGED <<queued, parsing, download, tabB>>

setAmount(value) ==
    /\ phase = "idle"
    /\ value # amount
    /\ Render(transactions, FALSE, darkMode, description, value, category)
    /\ event' = Event("type", 0, <<>>)
    /\ UNCHANGED <<queued, parsing, download, tabB>>

setCategory(value) ==
    /\ phase = "idle"
    /\ value # category
    /\ Render(transactions, FALSE, darkMode, description, amount, value)
    /\ event' = Event("type", 0, <<>>)
    /\ UNCHANGED <<queued, parsing, download, tabB>>

\* only the description checked
AddRejectedNoDescription(desc, amt) == desc = ""

\* if (!description || !amount) return;
AddRejected(desc, amt) == desc = "" \/ amt = ""

\* [...transactions, {description, amount: parseFloat(amount), category}]
AddResult(txs, desc, amt, cat) ==
    Append(txs, [description |-> Str(desc),
                 amount |-> ParseFloat(Str(amt)),
                 category |-> Str(cat)])

handleAddTransaction ==
    /\ phase = "idle"
    /\ event' = Event("submit", 0, <<>>)
    /\ IF AddRejected(description, amount)
       THEN UNCHANGED <<phase, transactions, description, amount, category,
                        darkMode, localStorage>>
       ELSE /\ Len(transactions) < MaxLedger
            /\ Render(AddResult(transactions, description, amount, category),
                      TRUE, darkMode, "", "", "Other")
    /\ UNCHANGED <<queued, parsing, download, tabB>>

\* transactions.filter((_, i) => i !== index), positions counted from 0
RECURSIVE FilterIndex(_, _, _)
FilterIndex(txs, index, i) ==
    IF txs = <<>> THEN <<>>
    ELSE IF i # index
    THEN <<Head(txs)>> \o FilterIndex(Tail(txs), index, i + 1)
    ELSE FilterIndex(Tail(txs), index, i + 1)

\* positions counted from 1
DeleteResultFromOne(txs, index) == FilterIndex(txs, index, 1)

DeleteResult(txs, index) == FilterIndex(txs, index, 0)

handleDeleteTransaction(index) ==
    /\ phase = "idle"
    /\ Render(DeleteResult(transactions, index), TRUE, darkMode,
              description, amount, category)
    /\ event' = Event("delete", index, <<>>)
    /\ UNCHANGED <<queued, parsing, download, tabB>>

\* Papa.unparse(transactions), offered as the download transactions.csv
handleExportCSV ==
    /\ phase = "idle"
    /\ download' = File(PapaUnparse(transactions))
    /\ event' = Event("export", 0, <<>>)
    /\ UNCHANGED <<phase, transactions, description, amount, category,
                   darkMode, queued, localStorage, parsing, tabB>>

\* an import that replaces the ledger while the file is being selected
handleImportCSVSync(file) ==
    /\ phase = "idle"
    /\ event' = Event("select", IF file.present THEN 1 ELSE 0, file.lines)
    /\ IF ~file.present
       THEN UNCHANGED <<phase, transactions, description, amount, category,
                        darkMode, localStorage>>
       ELSE Render(ImportedTransactions(PapaParse(file.lines)), TRUE,
                   darkMode, description, amount, category)
    /\ UNCHANGED <<queued, parsing, download, tabB>>

\* The file input changed: Papa.parse starts reading the file and returns;
\* its complete callback runs when the file has been read.
handleImportCSV(file) ==
    /\ phase = "idle"
    /\ event' = Event("select", IF file.present THEN 1 ELSE 0, file.lines)
    /\ IF ~file.present
       THEN UNCHANGED parsing
       ELSE /\ Cardinality(parsing) < MaxParsing
            /\ parsing' = parsing \cup {file.lines}
    /\ UNCHANGED <<phase, transactions, description, amount, category,
                   darkMode, queued, localStorage, download, tabB>>

\* Papa's complete callback: setTransactions(importedTransactions)
ImportComplete(lines) ==
    /\ phase = "idle"
    /\ lines \in parsing
    /\ parsing' = parsing \ {lines}
    /\ Render(ImportedTransactions(PapaParse(lines)), TRUE, darkMode,
              description, amount, category)
    /\ event' = Event("complete", 0, lines)
    /\ UNCHANGED <<queued, download, tabB>>

Next ==
    \/ MountEffects
    \/ Rerender
    \/ Reload
    \/ toggleDarkMode
    \/ \E value \in Descriptions : setDescription(value)
    \/ \E value \in Amounts : setAmount(value)
    \/ \E value \in Categories : setCategory(value)
    \/ handleAddTransaction
    \/ \E index \in 0..(Len(transactions) - 1) : handleDeleteTransaction(index)
    \/ \E file \in {File(lines) : lines \in FixedFiles} \cup {NoFile} :
          handleImportCSV(file)
    \/ \E lines \in parsing : ImportComplete(lines)

Spec == Init /\ [][Next]_vars

\* The export scenario: the user works as in Spec, exports at some moment,
\* and from then on selects the exported file for import (and may export
\* again).
NextRoundTrip ==
    \/ download = NoFile /\ Next
    \/ handleExportCSV
    \/ download.present /\ handleImportCSV(download)
    \/ download.present /\ \E lines \in parsing : ImportComplete(lines)

SpecRoundTrip == Init /\ [][NextRoundTrip]_vars

---------------------------------------------------------------------------
\* The second tab.  Its Home runs the same code on its own state; its form
\* fields are not kept as state: a submit draws what the form holds.

\* A save that keeps what the other tab stored: the stored ledger followed
\* by the tab's own
TabRenderMerged(tab, store, txs, txsSet, dark) ==
    [tab |-> [phase |-> "idle", transactions |-> txs, darkMode |-> dark,
              queued |-> NothingQueued],
     store |-> [transactions |->
                   IF txsSet
                   THEN SaveTransactions(
                          (IF store.transactions.present
                           THEN JSONParse(store.transactions.text)
                           ELSE <<>>) \o txs)
                   ELSE store.transactions,
                darkMode |-> store.darkMode]]

\* A render of a tab with the new state and the effects whose dependencies
\* changed, as Render: the tab and the storage after it.
TabRender(tab, store, txs, txsSet, dark) ==
    IF RenderThrows(txs)
    THEN [tab |-> [tab EXCEPT !.phase = "crashed", !.queued = NothingQueued],
          store |-> store]
    ELSE [tab |-> [phase |-> "idle", transactions |-> txs, darkMode |-> dark,
                   queued |-> NothingQueued],
          store |-> [transactions |-> IF txsSet THEN SaveTransactions(txs)
                                      ELSE store.transactions,
                     darkMode |-> IF dark # tab.darkMode THEN SaveDarkMode(dark)
                                  ELSE store.darkMode]]

\* The three mount effects of the second tab, as MountEffects.
tabBMountEffects ==
    /\ tabB.phase = "mounted"
    /\ LET savedTransactions == localStorage.transactions
           savedDarkMode == localStorage.darkMode
           loadTransactions == savedTransactions.present
           loadDarkMode == savedDarkMode.present /\ savedDarkMode.text = "true"
       IN  tabB' =
             [tabB EXCEPT
                !.queued =
                   [transactions |->
                       IF loadTransactions
                       THEN Item(JSONParse(savedTransactions.text))
                       ELSE NoItem(<<>>),
                    darkMode |-> IF loadDarkMode THEN Item(TRUE)
                                 ELSE NoItem(FALSE)],
                !.phase = IF loadTransactions \/ loadDarkMode THEN "updating"
                          ELSE "idle"]
    /\ localStorage' = [transactions |-> SaveTransactions(tabB.transactions),
                        darkMode |-> SaveDarkMode(tabB.darkMode)]
    /\ event' = Event("tabB effects", 0, <<>>)
    /\ UNCHANGED <<phase, transactions, description, amount, category,
                   darkMode, queued, parsing, download>>

\* The re-render of the second tab after its load effect, as Rerender.
tabBRerender ==
    /\ tabB.phase = "updating"
    /\ LET after ==
             TabRender(tabB, localStorage,
                       IF tabB.queued.transactions.present
                       THEN tabB.queued.transactions.text
                       ELSE tabB.transactions,
                       tabB.queued.transactions.present,
                       IF tabB.queued.darkMode.present
                       THEN tabB.queued.darkMode.text ELSE tabB.darkMode)
       IN  /\ tabB' = after.tab
           /\ localStorage' = after.store
    /\ event' = Event("tabB rerender", 0, <<>>)
    /\ UNCHANGED <<phase, transactions, description, amount, category,
                   darkMode, queued, parsing, download>>

\* The second tab is reloaded, as Reload.
tabBReload ==
    /\ tabB' = TabMounted
    /\ event' = Event("tabB reload", 0, <<>>)
    /\ UNCHANGED <<phase, transactions, description, amount, category,
                   darkMode, queued, localStorage, parsing, download>>

\* A submit in the second tab with desc, amt and cat in its form, as
\* handleAddTransaction.
tabBAddTransaction(desc, amt, cat) ==
    /\ tabB.phase = "idle"
    /\ event' = Event("tabB submit", 0, <<>>)
    /\ IF AddRejected(desc, amt)
       THEN UNCHANGED <<tabB, localStorage>>
       ELSE /\ Len(tabB.transactions) < MaxLedger
            /\ LET after ==
                     TabRender(tabB, localStorage,
                               AddResult(tabB.transactions, desc, amt, cat),
                               TRUE, tabB.darkMode)
               IN  /\ tabB' = after.tab
                   /\ localStorage' = after.store
    /\ UNCHANGED <<phase, transactions, description, amount, category,
                   darkMode, queued, parsing, download>>

\* A delete in the second tab, as handleDeleteTransaction.
tabBDeleteTransaction(index) ==
    /\ tabB.phase = "idle"
    /\ LET after ==
             TabRender(tabB, localStorage,
                       DeleteResult(tabB.transactions, index),
                       TRUE, tabB.darkMode)
       IN  /\ tabB' = after.tab
           /\ localStorage' = after.store
    /\ event' = Event("tabB delete", index, <<>>)
    /\ UNCHANGED <<phase, transactions, description, amount, category,
                   darkMode, queued, parsing, download>>

\* Two tabs editing the ledger: each mounts, reloads, adds and deletes.  The
\* category select of each tab is left at its initial value.
NextTabs ==
    \/ MountEffects
    \/ Rerender
    \/ Reload
    \/ \E value \in Descriptions : setDescription(value)
    \/ \E value \in Amounts : setAmount(value)
    \/ handleAddTransaction
    \/ \E index \in 0..(Len(transactions) - 1) : handleDeleteTransaction(index)
    \/ tabBMountEffects
    \/ tabBRerender
    \/ tabBReload
    \/ \E desc \in Descriptions, amt \in Amounts :
          tabBAddTransaction(desc, amt, "Other")
    \/ \E index \in 0..(Len(tabB.transactions) - 1) :
          tabBDeleteTransaction(index)

SpecTabs == Init /\ [][NextTabs]_vars

---------------------------------------------------------------------------
\* Properties

HasNaN(txs) == \E i \in 1..Len(txs) : txs[i].amount = NaN

\* The positions (from 1) of the records with a negative amount
ExpensePositions(txs) ==
    {i \in 1..Len(txs) : txs[i].amount.t = "number" /\ txs[i].amount.n < 0}

RECURSIVE SumOver(_, _)
SumOver(txs, positions) ==
    IF positions = {} THEN 0
    ELSE LET i == CHOOSE j \in positions : TRUE
         IN  txs[i].amount.n + SumOver(txs, positions \ {i})

\* C1: in every ledger the program reaches, records with an unparsable
\* amount included, income is a number >= 0, expenses a number <= 0 and
\* balance is their sum.
C1_TotalsSigned ==
    LET income == Income(transactions)
        expenses == Expenses(transactions)
    IN  /\ income.t = "number" /\ income.n >= 0
        /\ expenses.t = "number" /\ expenses.n <= 0
        /\ Balance(transactions) = Num(income.n + expenses.n)

C1_Witness ==
    /\ HasNaN(transactions)
    /\ Income(transactions).n > 0
    /\ Expenses(transactions).n < 0

\* C3: deleting position i (from 0) of a ledger of length n leaves a ledger
\* of length n-1: the records before i stay where they are, those after i
\* move down by one.
C3_DeleteRemovesOne ==
    [][event'.op = "delete" =>
        LET i == event'.index
            n == Len(transactions)
        IN  /\ i \in 0..(n - 1)
            /\ Len(transactions') = n - 1
            /\ \A j \in 1..i : transactions'[j] = transactions[j]
            /\ \A j \in (i + 1)..(n - 1) : transactions'[j] = transactions[j + 1]
    ]_vars

C3_Witness ==
    /\ event.op = "delete"
    /\ event.index = 1
    /\ Len(transactions) = 2
    /\ transactions[1].description # transactions[2].description

\* C4, as claimed: chartData holds one entry for each category that has a
\* record with a negative amount and no other entry, and the value of an
\* entry is the sum of the absolute values of that category's negative
\* amounts.
C4_ChartData ==
    LET data == chartData(transactions)
        spent == ExpensePositions(transactions)
        of(name) == {i \in spent : transactions[i].category = Str(name)}
    IN  /\ {data[k].name : k \in 1..Len(data)}
             = {transactions[i].category.s : i \in spent}
        /\ \A k, l \in 1..Len(data) : data[k].name = data[l].name => k = l
        /\ \A k \in 1..Len(data) :
              data[k].value = Num(0 - SumOver(transactions, of(data[k].name)))

\* The column of a field in a CSV file, 0 when the header lacks it
Column(lines, name) ==
    IF \E j \in 1..Len(lines[1]) : lines[1][j] = name
    THEN CHOOSE j \in 1..Len(lines[1]) : lines[1][j] = name
    ELSE 0

HasCell(lines, row, name) ==
    Column(lines, name) \in 1..Len(lines[row + 1])

Cell(lines, row, name) == lines[row + 1][Column(lines, name)]

\* C5: when an import completes, the ledger is the file's data rows in row
\* order, whatever it held before: each record has the row's description,
\* the parsed amount, and the row's category or "Other" when the category
\* is missing or blank.
C5_ImportReplaces ==
    [][event'.op = "complete" =>
        LET lines == event'.lines
            rows == IF Len(lines) = 0 THEN 0 ELSE Len(lines) - 1
        IN  /\ Len(transactions') = rows
            /\ \A r \in 1..rows :
                 /\ transactions'[r].description =
                      IF HasCell(lines, r, "description")
                      THEN Str(Cell(lines, r, "description")) ELSE Undefined
                 /\ transactions'[r].amount =
                      IF HasCell(lines, r, "amount")
                      THEN ParseFloat(Str(Cell(lines, r, "amount"))) ELSE NaN
                 /\ transactions'[r].category =
                      IF HasCell(lines, r, "category")
                         /\ Cell(lines, r, "category") # ""
                      THEN Str(Cell(lines, r, "category")) ELSE Str("Other")
    ]_vars

C5_Witness ==
    /\ event.op = "complete"
    /\ event.lines = FileNoCategory
    /\ Len(transactions) = 3
    /\ transactions[1].category = Str("Other")
    /\ transactions[2].category = Str("Other")
    /\ transactions[3].category = Str("Food")

\* C6: a submit with an empty description or amount changes neither the
\* ledger, the stored ledger nor the form; any other submit appends one
\* record (the description, the parsed amount, the category) after the
\* unchanged earlier records and resets the form.
C6_AddOrReject ==
    [][event'.op = "submit" =>
        IF description = "" \/ amount = ""
        THEN UNCHANGED <<transactions, localStorage, description, amount,
                         category>>
        ELSE /\ Len(transactions') = Len(transactions) + 1
             /\ \A j \in 1..Len(transactions) :
                   transactions'[j] = transactions[j]
             /\ transactions'[Len(transactions')] =
                   [description |-> Str(description),
                    amount |-> ParseFloat(Str(amount)),
                    category |-> Str(category)]
             /\ transactions'[Len(transactions')].amount.t = "number"
             /\ description' = "" /\ amount' = "" /\ category' = "Other"
    ]_vars

C6_Witness ==
    /\ event.op = "submit"
    /\ Len(transactions) = 2
    /\ transactions[2] =
         [description |-> Str("a"), amount |-> Num(-1), category |-> Str("Food")]
    /\ description = "" /\ amount = "" /\ category = "Other"

\* C9, as claimed: a ledger holding a record whose amount is NaN shows NaN
\* as income, expenses or balance.
C9_NaNInTotals ==
    HasNaN(transactions) =>
        \/ Income(transactions) = NaN
        \/ Expenses(transactions) = NaN
        \/ Balance(transactions) = NaN

\* the ledger without the records whose amount is NaN
RECURSIVE WithoutNaN(_)
WithoutNaN(txs) ==
    IF txs = <<>> THEN <<>>
    ELSE IF Head(txs).amount = NaN THEN WithoutNaN(Tail(txs))
    ELSE <<Head(txs)>> \o WithoutNaN(Tail(txs))

\* C9, amended: a record whose amount is NaN shows NaN in its own row only;
\* income, expenses and balance are numbers, the same as for the ledger
\* without such records.
C9_NaNLeftOut ==
    HasNaN(transactions) =>
        /\ \A i \in 1..Len(transactions) :
              transactions[i].amount = NaN =>
                 ToFixed2(transactions[i].amount) = "NaN"
        /\ Income(transactions).t = "number"
        /\ Expenses(transactions).t = "number"
        /\ Balance(transactions).t = "number"
        /\ Income(transactions) = Income(WithoutNaN(transactions))
        /\ Expenses(transactions) = Expenses(WithoutNaN(transactions))
        /\ Balance(transactions) = Balance(WithoutNaN(transactions))

C9_Witness ==
    /\ HasNaN(transactions)
    /\ event.op = "complete"
    /\ Income(transactions) = Num(4)
    /\ Expenses(transactions) = Num(-2)
    /\ Balance(transactions) = Num(2)

\* C10, as claimed: between the selection of a file and the moment its
\* records replace the ledger no add and no delete takes effect.
C10_ImportIsOneStep ==
    [][parsing # {} /\ event'.op \in {"submit", "delete"} =>
          transactions' = transactions]_vars

\* C10, amended: add, delete and toggle run to completion in one step, the
\* stored ledger written with it; an import takes two: selecting a file
\* starts the parse and changes neither the ledger nor the stored ledger,
\* adds and deletes are processed while the parse runs, and the completion
\* replaces the ledger of that moment by the file's records.
C10_ImportIsTwoSteps ==
    [][/\ event'.op = "select" =>
            /\ UNCHANGED <<transactions, localStorage>>
            /\ parsing' = IF event'.index = 1
                          THEN parsing \cup {event'.lines} ELSE parsing
       /\ event'.op \in {"submit", "delete", "toggle", "complete"} =>
            /\ phase' = "idle"
            /\ localStorage'.transactions = Item(JSONStringify(transactions'))
            /\ localStorage'.darkMode = Item(BoolToString(darkMode'))
       /\ event'.op = "complete" =>
            /\ event'.lines \in parsing
            /\ transactions' = ImportedTransactions(PapaParse(event'.lines))
    ]_vars

C10_Witness ==
    /\ parsing # {}
    /\ event.op = "submit"
    /\ transactions # <<>>

\* What the list shows for a description: nothing for undefined
Shown(v) == IF v.t = "string" THEN v.s ELSE ""

\* C2, as claimed: importing the file just exported from the ledger gives
\* a ledger of the same length and order whose records show the same
\* description and hold the same amount and category.
C2_RoundTrip ==
    [][/\ event'.op = "complete"
       /\ download.present
       /\ event'.lines = download.lines
       /\ download.lines = PapaUnparse(transactions)
       => /\ Len(transactions') = Len(transactions)
          /\ \A i \in 1..Len(transactions) :
                /\ Shown(transactions'[i].description)
                     = Shown(transactions[i].description)
                /\ transactions'[i].amount = transactions[i].amount
                /\ transactions'[i].category = transactions[i].category
    ]_vars

\* A step that ends a mount: the mount effects with nothing to load, or the
\* re-render after them.
MountEnds ==
    /\ phase \in {"mounted", "updating"}
    /\ phase' \in {"idle", "crashed"}

\* C7, as claimed: whenever nothing is pending the stored "darkMode" is the
\* string of the flag, and a mount ends with the flag it was stored with
\* before the reload.
C7_DarkModePersists ==
    /\ [](phase = "idle" =>
            localStorage.darkMode = Item(BoolToString(darkMode)))
    /\ [][MountEnds =>
            LET before == IF phase = "mounted"
                          THEN localStorage.darkMode = Item("true")
                          ELSE queued.darkMode.present
            IN  /\ darkMode' = before
                /\ localStorage'.darkMode = Item(BoolToString(before))
       ]_vars

\* C8, as claimed: whenever nothing is pending the stored "transactions" is
\* the serialization of the ledger in memory, and a mount ends with the
\* ledger that was stored before it in memory and in storage (the empty
\* ledger when nothing was stored).
C8_LedgerMirrored ==
    /\ [](phase = "idle" =>
            localStorage.transactions = Item(JSONStringify(transactions)))
    /\ [][MountEnds =>
            LET before ==
                  IF phase = "mounted"
                  THEN (IF localStorage.transactions.present
                        THEN JSONParse(localStorage.transactions.text)
                        ELSE <<>>)
                  ELSE (IF queued.transactions.present
                        THEN queued.transactions.text ELSE <<>>)
            IN  /\ transactions' = before
                /\ localStorage'.transactions = Item(JSONStringify(before))
       ]_vars

\* The events of the first tab and of the second that change its ledger
LedgerEvents == {"submit", "delete"}
TabBLedgerEvents == {"tabB submit", "tabB delete"}
TabBEvents ==
    TabBLedgerEvents \cup {"tabB effects", "tabB rerender", "tabB reload"}

\* next is prior with one record appended or one record removed
OneEdit(prior, next) ==
    \/ \E desc \in Descriptions, amt \in Amounts, cat \in Categories :
          /\ ~AddRejected(desc, amt)
          /\ next = AddResult(prior, desc, amt, cat)
    \/ \E index \in 0..(Len(prior) - 1) : next = DeleteResult(prior, index)

\* C11: with two tabs over the same storage, a step in which one tab changes
\* its ledger leaves in storage that tab's new in-memory ledger, which is
\* its own prior ledger with one record added or removed, whatever the
\* other tab had stored; and no step in one tab changes the in-memory
\* ledger, the pending updates or the phase of the other.  So after tab A
\* changes its ledger and then tab B changes its own, storage holds tab
\* B's ledger, without tab A's change.
C11_LastWriteWins ==
    [][/\ (event'.op \in TabBLedgerEvents
           /\ tabB'.transactions # tabB.transactions) =>
            /\ localStorage'.transactions =
                  Item(JSONStringify(tabB'.transactions))
            /\ OneEdit(tabB.transactions, tabB'.transactions)
       /\ (event'.op \in LedgerEvents /\ transactions' # transactions) =>
            /\ localStorage'.transactions = Item(JSONStringify(transactions'))
            /\ OneEdit(transactions, transactions')
       /\ event'.op \in TabBEvents =>
            UNCHANGED <<phase, transactions, queued>>
       /\ event'.op \notin TabBEvents => tabB' = tabB
    ]_vars

\* Tab B has just added a record; tab A holds a record tab B does not have;
\* storage holds tab B's ledger, and with it no record of tab A's.
C11_Witness ==
    /\ event.op = "tabB submit"
    /\ phase = "idle"
    /\ tabB.phase = "idle"
    /\ transactions # <<>>
    /\ tabB.transactions # <<>>
    /\ \A i \in 1..Len(transactions) : transactions[i].amount = Num(-1)
    /\ \A i \in 1..Len(tabB.transactions) :
          tabB.transactions[i].amount = Num(2)
    /\ localStorage.transactions = Item(JSONStringify(tabB.transactions))
    /\ \A i \in 1..Len(JSONParse(localStorage.transactions.text)) :
          JSONParse(localStorage.transactions.text)[i].amount # Num(-1)

====
